---- MODULE Spec2Model ----
(***************************************************************************)
(* A model of src/app.py: the K/D rounding rule, the match stat extractor, *)
(* the match pager, the Twire table parser and the TTL disk cache with the *)
(* /api/twire/player-stats handler.                                        *)
(*                                                                         *)
(* Each component has its own specification over its own variables; the    *)
(* variables of the other components stay at their idle values.            *)
(*   SpecRound    kd_round_to_int                                          *)
(*   SpecExtract  extract_player_stats_from_match, _safe_get               *)
(*   SpecPager    api_matches                                              *)
(*   SpecParse    parse_twire_players                                      *)
(*   SpecCache    cache_path, load_cache, save_cache,                      *)
(*                api_twire_player_stats, one request at a time            *)
(*   SpecConc     api_twire_player_stats, requests of a threaded server    *)
(*                interleaved at the granularity of file system calls      *)
(***************************************************************************)
EXTENDS Integers, Sequences, FiniteSets, TLC

VARIABLES
    now,      \* time.time(), in half seconds
    files,    \* .twire_cache: file name -> whether it exists and its content
    resp,     \* the last operation on the cache and what it returned
    last_put, \* per file, the clock and the rows of the last save_cache (history)
    procs,    \* SpecConc: the requests in flight
    kd_in,    \* SpecRound: the argument of kd_round_to_int
    kd_out,   \* SpecRound: what the call did
    ex_in,    \* SpecExtract: the arguments of extract_player_stats_from_match
    ex_out,   \* SpecExtract: what the call did
    pg_in,    \* SpecPager: the request and the collaborators' answers
    pg_out,   \* SpecPager: the response
    tw_in,    \* SpecParse: the rendered document
    tw_out    \* SpecParse: what parse_twire_players did

vars == <<now, files, resp, last_put, procs, kd_in, kd_out, ex_in, ex_out,
          pg_in, pg_out, tw_in, tw_out>>

cacheVars == <<now, files, resp, last_put, procs>>
roundVars == <<kd_in, kd_out>>
extractVars == <<ex_in, ex_out>>
pagerVars == <<pg_in, pg_out>>
parseVars == <<tw_in, tw_out>>

CacheIdle == now = 0 /\ files = <<>> /\ resp = <<>> /\ last_put = <<>> /\ procs = <<>>
RoundIdle == kd_in = <<>> /\ kd_out = <<>>
ExtractIdle == ex_in = <<>> /\ ex_out = <<>>
PagerIdle == pg_in = <<>> /\ pg_out = <<>>
ParseIdle == tw_in = <<>> /\ tw_out = <<>>

Min(a, b) == IF a <= b THEN a ELSE b
Max(a, b) == IF a >= b THEN a ELSE b
Abs(a) == IF a >= 0 THEN a ELSE -a

(***************************************************************************)
(* kd_round_to_int                                                         *)
(*                                                                         *)
(* A Python value handed to the function is a record: t says what it is    *)
(* and h carries a finite number in hundredths (2.45 is h = 245) or the    *)
(* sign of an infinity.                                                    *)
(***************************************************************************)
MaxH == 260

KdVals ==
    {[t |-> "num", h |-> h] : h \in -MaxH..MaxH}
        \cup {[t |-> "nan", h |-> 0], [t |-> "inf", h |-> 1], [t |-> "inf", h |-> -1],
              [t |-> "text", h |-> 0], [t |-> "empty", h |-> 0], [t |-> "none", h |-> 0]}

\* float(val): a number or numeric text converts, "nan" and "inf" convert to the
\* float NaN and infinities, anything else raises ValueError or TypeError.
PyFloat(val) ==
    CASE val.t = "num" -> [ok |-> TRUE, kind |-> "finite", h |-> val.h]
      [] val.t = "nan" -> [ok |-> TRUE, kind |-> "nan", h |-> 0]
      [] val.t = "inf" -> [ok |-> TRUE, kind |-> "inf", h |-> val.h]
      [] OTHER -> [ok |-> FALSE, kind |-> "none", h |-> 0]

\* int(n) of a finite float: truncation toward zero, in units.
PyTrunc(h) == IF h >= 0 THEN h \div 100 ELSE -((-h) \div 100)

FracLow == 40
FracHigh == 50

Returned(v) == [done |-> TRUE, raised |-> FALSE, v |-> v]
Raised == [done |-> TRUE, raised |-> TRUE, v |-> 0]
Pending == [done |-> FALSE, raised |-> FALSE, v |-> 0]

kd_round_to_int(val) ==
    LET n == PyFloat(val) IN
    IF ~n.ok THEN Returned(0)                    \* except Exception: return 0
    ELSE IF n.kind # "finite" THEN Raised        \* int(n), outside the try
    ELSE LET i == PyTrunc(n.h)
             frac == Abs(n.h - 100 * i)
         IN IF frac <= FracLow THEN Returned(i)
            ELSE IF frac >= FracHigh
                 THEN Returned(i + (IF n.h >= 0 THEN 1 ELSE -1))
                 ELSE Returned(i)

InitRound ==
    /\ kd_in \in KdVals
    /\ kd_out = Pending
    /\ CacheIdle /\ ExtractIdle /\ PagerIdle /\ ParseIdle

RoundCall ==
    /\ ~kd_out.done
    /\ kd_out' = kd_round_to_int(kd_in)
    /\ UNCHANGED <<kd_in, cacheVars, extractVars, pagerVars, parseVars>>

NextRound == RoundCall

SpecRound == InitRound /\ [][NextRound]_vars

\* The value the shifted rule gives a finite number of h hundredths.
ShiftedRule(h) ==
    LET i == IF h >= 0 THEN h \div 100 ELSE -((-h) \div 100)
        frac == IF h - 100 * i >= 0 THEN h - 100 * i ELSE 100 * i - h
    IN CASE frac <= 40 -> i
         [] frac > 40 /\ frac < 50 -> i
         [] frac >= 50 -> IF h >= 0 THEN i + 1 ELSE i - 1

\* C7: roundRatio is total and follows the shifted rule: a number gives the
\* rule's value, and every non-numeric input (empty text, text that is no
\* number, NaN, the infinities) gives 0; no input makes it raise.
C7_RoundRatioTotal ==
    kd_out.done =>
        /\ ~kd_out.raised
        /\ kd_out.v = (IF kd_in.t = "num" THEN ShiftedRule(kd_in.h) ELSE 0)

(***************************************************************************)
(* JSON-like Python values: a tag k and a value v.  A dict carries a       *)
(* function from its keys to values, None is Null.                         *)
(***************************************************************************)
Null == [k |-> "null", v |-> 0]
Str(s) == [k |-> "str", v |-> s]
Num(n) == [k |-> "num", v |-> n]
Dict(f) == [k |-> "dict", v |-> f]
List(s) == [k |-> "list", v |-> s]
EmptyDict == Dict(<<>>)

\* d.get(key) and d.get(key, default) of a dict d.
DictGet(d, key) == IF key \in DOMAIN d.v THEN d.v[key] ELSE Null
DictGetD(d, key, default) == IF key \in DOMAIN d.v THEN d.v[key] ELSE default

\* x or y
PyOr(x, y) ==
    IF \/ x.k = "null"
       \/ (x.k = "str" /\ x.v = "")
       \/ (x.k = "num" /\ x.v = 0)
       \/ (x.k = "dict" /\ DOMAIN x.v = {})
       \/ (x.k = "list" /\ Len(x.v) = 0)
    THEN y ELSE x

RECURSIVE _safe_get(_, _, _)
_safe_get(obj, keys, default) ==
    IF Len(keys) = 0
    THEN (IF obj.k # "null" THEN obj ELSE default)
    ELSE IF obj.k = "dict"
         THEN _safe_get(DictGet(obj, Head(keys)), Tail(keys), default)
         ELSE default

\* str.lower() on the names of the model.
Lower(s) ==
    CASE s = "BOB" -> "bob"
      [] s = "Bob" -> "bob"
      [] s = "AL" -> "al"
      [] OTHER -> s

\* _to_m_ss: the string "M:SS" is kept as the pair it prints.
_to_m_ss(seconds) ==
    LET sec == PyOr(seconds, Num(0)) IN
    IF sec.k # "num" THEN Str("-")               \* int() raised
    ELSE [k |-> "m:ss", v |-> <<sec.v \div 60, sec.v % 60>>]

\* _distance_str over whole metres: "<n> m", or "<n/1000 to 2 decimals> km" kept
\* in hundredths of a km (the totals drawn never end in 5, so the rounding of
\* the format is to the nearest hundredth).
KmFrom == 1000

_distance_str(walk, ride, swim) ==
    LET w == PyOr(walk, Num(0))
        r == PyOr(ride, Num(0))
        s == PyOr(swim, Num(0))
    IN IF w.k # "num" \/ r.k # "num" \/ s.k # "num" THEN Str("-")
       ELSE LET total == w.v + r.v + s.v IN
            IF total >= KmFrom
            THEN [k |-> "km", v |-> (total + 5) \div 10]
            ELSE [k |-> "m", v |-> total]

\* The loop over included: the stats of the first participant whose name is
\* the player's, or a raise at the first record the loop cannot read.
RECURSIVE FindParticipant(_, _)
FindParticipant(included, player_name) ==
    IF Len(included) = 0 THEN [raised |-> FALSE, s |-> Null]
    ELSE LET inc == Head(included) IN
         IF inc.k # "dict" THEN [raised |-> TRUE, s |-> Null]       \* inc.get
         ELSE LET ty == DictGet(inc, "type") IN
              IF ~(ty.k = "str" /\ ty.v = "participant")
              THEN FindParticipant(Tail(included), player_name)
              ELSE LET s == _safe_get(inc, <<"attributes", "stats">>, EmptyDict) IN
                   IF s.k # "dict" THEN [raised |-> TRUE, s |-> Null]   \* s.get
                   ELSE LET nm == DictGetD(s, "name", Str(""))
                            pn == PyOr(player_name, Str(""))
                        IN IF nm.k # "str" \/ pn.k # "str"
                           THEN [raised |-> TRUE, s |-> Null]        \* .lower()
                           ELSE IF Lower(nm.v) = Lower(pn.v)
                                THEN [raised |-> FALSE, s |-> s]
                                ELSE FindParticipant(Tail(included), player_name)

extract_player_stats_from_match(match_json, player_name) ==
    LET data == DictGetD(match_json, "data", EmptyDict) IN
    IF data.k # "dict" THEN Raised                                  \* data.get
    ELSE LET attrs == DictGetD(data, "attributes", EmptyDict) IN
    IF attrs.k # "dict" THEN Raised                                 \* attrs.get
    ELSE LET included == PyOr(DictGetD(match_json, "included", List(<<>>)), List(<<>>)) IN
    IF included.k # "list" THEN Raised                              \* for inc in
    ELSE LET found == FindParticipant(included.v, player_name)
             out == [match_id |-> DictGet(data, "id"),
                     mode |-> PyOr(DictGet(attrs, "gameMode"), Str("-")),
                     map |-> PyOr(DictGet(attrs, "mapName"), Str("-")),
                     createdAt |-> PyOr(DictGet(attrs, "createdAt"), Str("-")),
                     rank |-> Null,
                     kills |-> Num(0),
                     damage |-> Num(0),
                     dbno |-> Num(0),
                     traveled |-> Str("-"),
                     timeAlive |-> Str("-")]
         IN IF found.raised THEN Raised
            ELSE IF PyOr(found.s, Null).k = "null" THEN Returned(out)   \* not participant
            ELSE LET p == found.s IN
                 Returned([out EXCEPT
                     !.rank = DictGet(p, "winPlace"),
                     !.kills = DictGetD(p, "kills", Num(0)),
                     !.damage = DictGetD(p, "damageDealt", Num(0)),
                     !.dbno = DictGetD(p, "DBNOs", Num(0)),
                     !.traveled = _distance_str(DictGetD(p, "walkDistance", Num(0)),
                                                DictGetD(p, "rideDistance", Num(0)),
                                                DictGetD(p, "swimDistance", Num(0))),
                     !.timeAlive = _to_m_ss(DictGetD(p, "timeSurvived", Num(0)))])

(***************************************************************************)
(* The match documents drawn: the match-level part present, partly present *)
(* or null, and up to MaxIncluded records in included, each a roster or a  *)
(* participant whose attributes, stats or name may be absent or null.      *)
(***************************************************************************)
MaxIncluded == 2

StatsBody(b) ==
    CASE b = 1 -> <<>>
      [] b = 2 -> [kills |-> Num(3), winPlace |-> Num(2), damageDealt |-> Num(120),
                   DBNOs |-> Num(1), walkDistance |-> Num(600), timeSurvived |-> Num(425)]
      [] b = 3 -> [kills |-> Num(7), winPlace |-> Num(1), damageDealt |-> Num(250),
                   DBNOs |-> Num(2), walkDistance |-> Num(1000), rideDistance |-> Num(500),
                   timeSurvived |-> Num(65)]

WithKey(f, newkey, val) ==
    [key \in DOMAIN f \cup {newkey} |-> IF key = newkey THEN val ELSE f[key]]

\* The stats of a participant: body b, and the name absent (n = 1), null, "Bob"
\* or "AL".
StatsDict(b, n) ==
    CASE n = 1 -> StatsBody(b)
      [] n = 2 -> WithKey(StatsBody(b), "name", Null)
      [] n = 3 -> WithKey(StatsBody(b), "name", Str("Bob"))
      [] n = 4 -> WithKey(StatsBody(b), "name", Str("AL"))

IncCodes ==
    {<<"roster", 0, 0>>, <<"untyped", 0, 0>>, <<"no_attributes", 0, 0>>,
     <<"null_attributes", 0, 0>>, <<"no_stats", 0, 0>>, <<"null_stats", 0, 0>>}
        \cup {<<"stats", b, n>> : b \in 1..3, n \in 1..4}

\* The record of included a code stands for.
IncOf(c) ==
    CASE c[1] = "roster" ->
            Dict([type |-> Str("roster"),
                  attributes |-> Dict([stats |-> Dict([rank |-> Num(1)])])])
      [] c[1] = "untyped" -> Dict([id |-> Str("x")])
      [] c[1] = "no_attributes" -> Dict([type |-> Str("participant")])
      [] c[1] = "null_attributes" -> Dict([type |-> Str("participant"), attributes |-> Null])
      [] c[1] = "no_stats" -> Dict([type |-> Str("participant"), attributes |-> EmptyDict])
      [] c[1] = "null_stats" ->
            Dict([type |-> Str("participant"), attributes |-> Dict([stats |-> Null])])
      [] c[1] = "stats" ->
            Dict([type |-> Str("participant"),
                  attributes |-> Dict([stats |-> Dict(StatsDict(c[2], c[3]))])])

MatchAttrs == [gameMode |-> Str("squad"), mapName |-> Str("Erangel"), createdAt |-> Str("t0")]

\* The match-level part: complete, without attributes, data null, data absent.
MatchLevel(l) ==
    CASE l = 1 -> [data |-> Dict([id |-> Str("m1"), attributes |-> Dict(MatchAttrs)])]
      [] l = 2 -> [data |-> Dict([id |-> Str("m1")])]
      [] l = 3 -> [data |-> Null]
      [] l = 4 -> <<>>

\* player_name: "BOB", "al", "" or None.
PlayerName(p) ==
    CASE p = 1 -> Str("BOB")
      [] p = 2 -> Str("al")
      [] p = 3 -> Str("")
      [] p = 4 -> Null

ExInputs ==
    [lvl : 1..4, included : {"absent", "null"}, codes : {<<>>}, player : 1..4]
        \cup [lvl : 1..4, included : {"list"},
              codes : UNION {[1..n -> IncCodes] : n \in 0..MaxIncluded}, player : 1..4]

RECURSIVE IncList(_)
IncList(codes) ==
    IF Len(codes) = 0 THEN <<>> ELSE <<IncOf(Head(codes))>> \o IncList(Tail(codes))

ExDoc(in) ==
    CASE in.included = "absent" -> Dict(MatchLevel(in.lvl))
      [] in.included = "null" -> Dict(WithKey(MatchLevel(in.lvl), "included", Null))
      [] in.included = "list" ->
            Dict(WithKey(MatchLevel(in.lvl), "included", List(IncList(in.codes))))

InitExtract ==
    /\ ex_in \in ExInputs
    /\ ex_out = Pending
    /\ CacheIdle /\ RoundIdle /\ PagerIdle /\ ParseIdle

ExtractCall ==
    /\ ~ex_out.done
    /\ ex_out' = extract_player_stats_from_match(ExDoc(ex_in), PlayerName(ex_in.player))
    /\ UNCHANGED <<ex_in, cacheVars, roundVars, pagerVars, parseVars>>

NextExtract == ExtractCall

SpecExtract == InitExtract /\ [][NextExtract]_vars

SameVal(a, b) == a.k = b.k /\ a.v = b.v

\* What the claim reads in the input: the target in lower case, whether the
\* record a code stands for is a participant whose stats carry that name, and
\* the stats of such a record.
ExTarget == CASE ex_in.player = 1 -> "bob" [] ex_in.player = 2 -> "al" [] OTHER -> ""

ExNamed(c) ==
    /\ c[1] = "stats"
    /\ \/ c[3] = 3 /\ ExTarget = "bob"
       \/ c[3] = 4 /\ ExTarget = "al"

ExMatching == {i \in 1..Len(ex_in.codes) : ExNamed(ex_in.codes[i])}

ExField(st, key, default) == IF key \in DOMAIN st THEN st[key] ELSE default

\* C9: extraction never fails due to missing player data: whatever the included
\* collection holds (missing, empty, participants whose attributes, stats or name
\* are absent or null) it returns a MatchStat; with no participant of the
\* target's name the player fields are the defaults (rank absent, kills 0,
\* damage 0, knockdowns 0) beside the match-level fields, and otherwise they are
\* those of the first participant of that name.
C9_ExtractNeverFails ==
    (ex_out.done /\ ex_in.lvl = 1) =>
        /\ ~ex_out.raised
        /\ SameVal(ex_out.v.match_id, Str("m1"))
        /\ SameVal(ex_out.v.mode, Str("squad"))
        /\ SameVal(ex_out.v.map, Str("Erangel"))
        /\ SameVal(ex_out.v.createdAt, Str("t0"))
        /\ IF ExMatching = {}
           THEN /\ ex_out.v.rank.k = "null"
                /\ SameVal(ex_out.v.kills, Num(0))
                /\ SameVal(ex_out.v.damage, Num(0))
                /\ SameVal(ex_out.v.dbno, Num(0))
           ELSE LET first == CHOOSE i \in ExMatching : \A j \in ExMatching : i <= j
                    st == StatsBody(ex_in.codes[first][2])
                IN /\ SameVal(ex_out.v.rank, ExField(st, "winPlace", Null))
                   /\ SameVal(ex_out.v.kills, ExField(st, "kills", Num(0)))
                   /\ SameVal(ex_out.v.damage, ExField(st, "damageDealt", Num(0)))
                   /\ SameVal(ex_out.v.dbno, ExField(st, "DBNOs", Num(0)))

(***************************************************************************)
(* api_matches                                                             *)
(*                                                                         *)
(* A query argument is <<"absent", 0>>, <<"empty", 0>> (page=), <<"int", n>>*)
(* or <<"bad", 0>> (text int() rejects).  A match id is a number; the      *)
(* MatchStat extracted for an id is written as the id.                     *)
(***************************************************************************)
MaxIds == 3
LongLen == 52
MaxPage == 2

DefaultPage == 0
DefaultLimit == 10
MinLimit == 1
MaxLimit == 50

\* int(request.args.get(name, default) or default)
ArgInt(arg, default) ==
    CASE arg[1] = "absent" -> [ok |-> TRUE, n |-> default]
      [] arg[1] = "empty" -> [ok |-> TRUE, n |-> default]
      [] arg[1] = "int" -> [ok |-> TRUE, n |-> arg[2]]
      [] OTHER -> [ok |-> FALSE, n |-> 0]

ClampLimit(limit) ==
    IF limit < MinLimit THEN MinLimit ELSE (IF limit > MaxLimit THEN MaxLimit ELSE limit)

\* s[start:end] of a list, for 0 <= start <= end.
PySlice(s, start, end) == SubSeq(s, Min(start, Len(s)) + 1, Min(end, Len(s)))

\* What get_match_detail and extract_player_stats_from_match do for match id mid.
MatchFate(in, mid) ==
    IF mid \in in.detail_fails THEN "detail_error"
    ELSE IF mid \in in.extract_fails THEN "extract_error"
    ELSE "ok"

\* for mid in slice_ids: try: ... matches.append(st) except Exception: continue
\* The loop with break in place of continue.
RECURSIVE CollectMatchesBreak(_, _)
CollectMatchesBreak(in, slice_ids) ==
    IF Len(slice_ids) = 0 THEN <<>>
    ELSE IF MatchFate(in, Head(slice_ids)) = "ok"
         THEN <<Head(slice_ids)>> \o CollectMatchesBreak(in, Tail(slice_ids))
         ELSE <<>>

RECURSIVE CollectMatches(_, _)
CollectMatches(in, slice_ids) ==
    IF Len(slice_ids) = 0 THEN <<>>
    ELSE IF MatchFate(in, Head(slice_ids)) = "ok"
         THEN <<Head(slice_ids)>> \o CollectMatches(in, Tail(slice_ids))
         ELSE CollectMatches(in, Tail(slice_ids))

PgResponse(status, ok, paged, page, limit, matches) ==
    [done |-> TRUE, status |-> status, ok |-> ok, paged |-> paged,
     page |-> page, limit |-> limit, matches |-> matches]

PgPending == [done |-> FALSE, status |-> 0, ok |-> FALSE, paged |-> FALSE,
              page |-> 0, limit |-> 0, matches |-> <<>>]

api_matches(in) ==
    IF in.upstream = "no_key" THEN PgResponse(400, FALSE, FALSE, 0, 0, <<>>)
    ELSE LET pageArg == ArgInt(in.page, DefaultPage)
             limitArg == ArgInt(in.limit, DefaultLimit)
         IN
         \* int() raising here is outside the try: the framework answers 500
         IF ~pageArg.ok \/ ~limitArg.ok THEN PgResponse(500, FALSE, FALSE, 0, 0, <<>>)
         ELSE LET page == Max(pageArg.n, 0)
                  limit == ClampLimit(limitArg.n)
              IN CASE in.upstream = "player_http_error" -> PgResponse(502, FALSE, FALSE, 0, 0, <<>>)
                   [] in.upstream = "player_error" -> PgResponse(500, FALSE, FALSE, 0, 0, <<>>)
                   [] in.upstream = "unknown_player" -> PgResponse(200, TRUE, FALSE, 0, 0, <<>>)
                   [] in.upstream = "ids_http_error" -> PgResponse(502, FALSE, FALSE, 0, 0, <<>>)
                   [] in.upstream = "ok" ->
                        IF Len(in.ids) = 0 THEN PgResponse(200, TRUE, FALSE, 0, 0, <<>>)
                        ELSE LET start == page * limit
                                 end == start + limit
                                 slice_ids == PySlice(in.ids, start, end)
                             IN PgResponse(200, TRUE, TRUE, page, limit,
                                           CollectMatches(in, slice_ids))

PageArgs == {<<"absent", 0>>, <<"empty", 0>>, <<"bad", 0>>} \cup {<<"int", n>> : n \in -1..MaxPage}

LimitArgs ==
    {<<"absent", 0>>, <<"empty", 0>>, <<"bad", 0>>}
        \cup {<<"int", n>> : n \in {-1, 0, 1, 2, MaxLimit - 1, MaxLimit, MaxLimit + 1}}

IdLists ==
    UNION {[1..n -> 1..3] : n \in 0..MaxIds} \cup {[i \in 1..LongLen |-> i]}

PgInputs ==
    [upstream : {"ok"}, page : PageArgs, limit : LimitArgs, ids : IdLists,
     detail_fails : SUBSET {1, MaxLimit + 1}, extract_fails : SUBSET {2}]
        \cup [upstream : {"no_key", "player_http_error", "player_error", "unknown_player",
                          "ids_http_error"},
              page : PageArgs, limit : {<<"absent", 0>>, <<"bad", 0>>}, ids : {<<>>},
              detail_fails : {{}}, extract_fails : {{}}]

InitPager ==
    /\ pg_in \in PgInputs
    /\ pg_out = PgPending
    /\ CacheIdle /\ RoundIdle /\ ExtractIdle /\ ParseIdle

PagerCall ==
    /\ ~pg_out.done
    /\ pg_out' = api_matches(pg_in)
    /\ UNCHANGED <<pg_in, cacheVars, roundVars, extractVars, parseVars>>

NextPager == PagerCall

SpecPager == InitPager /\ [][NextPager]_vars

\* The request as the claim reads it: the ids were listed, page is a number
\* >= 0 (0 when not given) and the limit a number (10 when not given).
PgClaimCase ==
    /\ pg_in.upstream = "ok"
    /\ pg_in.page[1] \in {"absent", "empty", "int"} /\ pg_in.page[2] >= 0
    /\ pg_in.limit[1] \in {"absent", "empty", "int"}

PgPage == pg_in.page[2]
PgRequestedLimit == IF pg_in.limit[1] = "int" THEN pg_in.limit[2] ELSE 10
PgL == IF PgRequestedLimit < 1 THEN 1 ELSE IF PgRequestedLimit > 50 THEN 50 ELSE PgRequestedLimit

\* The positions of ids inside the page whose retrieval and extraction succeed.
PgKept ==
    {i \in 1..Len(pg_in.ids) :
        /\ i > PgPage * PgL
        /\ i <= PgPage * PgL + PgL
        /\ pg_in.ids[i] \notin pg_in.detail_fails \cup pg_in.extract_fails}

PgNth(k) == CHOOSE i \in PgKept : Cardinality({j \in PgKept : j < i}) = k - 1

\* C6: with L the limit clamped to [1, 50], listMatches succeeds and returns
\* exactly the MatchStats of the ids of ids[page*L : page*L + L] whose retrieval
\* and extraction succeeded, in the order of ids: a failing id is skipped, is
\* never an error and never stops the ids after it; past the end of ids the
\* result is empty.
C6_PagerSlice ==
    (pg_out.done /\ PgClaimCase) =>
        /\ pg_out.status = 200 /\ pg_out.ok
        /\ Len(pg_out.matches) = Cardinality(PgKept)
        /\ \A k \in 1..Len(pg_out.matches) : pg_out.matches[k] = pg_in.ids[PgNth(k)]
        /\ (PgPage * PgL >= Len(pg_in.ids) => pg_out.matches = <<>>)

\* A first page of two ids out of three: the first fails in retrieval and is
\* skipped, the second is returned, the third, which would succeed, is outside.
C6_Witness ==
    /\ pg_out.done /\ PgClaimCase
    /\ PgPage = 0 /\ PgL = 2 /\ Len(pg_in.ids) = 3
    /\ pg_in.ids[1] \in pg_in.detail_fails
    /\ pg_in.ids[3] \notin pg_in.detail_fails \cup pg_in.extract_fails
    /\ pg_out.matches = <<pg_in.ids[2]>>

(***************************************************************************)
(* parse_twire_players                                                     *)
(*                                                                         *)
(* A text is the sequence of its characters.  A document is the sequence   *)
(* of its tables; a table has the th cells of its thead (none when it has  *)
(* no thead) and the rows of its tbody, a row being the texts of its       *)
(* cells as get_text returns them, stripped.                               *)
(***************************************************************************)
MaxLen == 3

IsDigit(c) == c \in {"0", "1", "2", "3", "4", "5", "6", "7", "8", "9"}

DigitVal(c) ==
    CASE c = "0" -> 0 [] c = "1" -> 1 [] c = "2" -> 2 [] c = "3" -> 3 [] c = "4" -> 4
      [] c = "5" -> 5 [] c = "6" -> 6 [] c = "7" -> 7 [] c = "8" -> 8 [] c = "9" -> 9

LowerChar(c) ==
    CASE c = "A" -> "a" [] c = "D" -> "d" [] c = "K" -> "k" [] c = "L" -> "l"
      [] c = "N" -> "n" [] c = "P" -> "p" [] c = "R" -> "r" [] c = "S" -> "s"
      [] OTHER -> c

\* str.lower()
LowerText(s) == [i \in 1..Len(s) |-> LowerChar(s[i])]

\* k in h
Contains(h, k) == \E i \in 1..(Len(h) - Len(k) + 1) : SubSeq(h, i, i + Len(k) - 1) = k

\* s.replace(",", "")
RECURSIVE StripCommas(_)
StripCommas(s) ==
    IF Len(s) = 0 THEN <<>>
    ELSE IF Head(s) = "," THEN StripCommas(Tail(s))
    ELSE <<Head(s)>> \o StripCommas(Tail(s))

\* The last position of the run of digits that starts at q.
RECURSIVE DigitsEnd(_, _)
DigitsEnd(s, q) == IF q < Len(s) /\ IsDigit(s[q + 1]) THEN DigitsEnd(s, q + 1) ELSE q

\* int() of the digits s[a..b].
RECURSIVE DigitsVal(_, _, _)
DigitsVal(s, a, b) == IF a > b THEN 0 ELSE 10 * DigitsVal(s, a, b - 1) + DigitVal(s[b])

RECURSIVE Pow10(_)
Pow10(n) == IF n = 0 THEN 1 ELSE 10 * Pow10(n - 1)

\* Where re.search(r"-?\d+", s) can start: the least such position is the match.
NumberStarts(s) ==
    {p \in 1..Len(s) : IsDigit(s[p]) \/ (s[p] = "-" /\ p < Len(s) /\ IsDigit(s[p + 1]))}

SetMin(S) == CHOOSE x \in S : \A y \in S : x <= y

as_int(text) ==
    LET s == StripCommas(text)
        starts == NumberStarts(s)
    IN IF starts = {} THEN 0
       ELSE LET p == SetMin(starts)
                q == IF s[p] = "-" THEN p + 1 ELSE p
                n == DigitsVal(s, q, DigitsEnd(s, q))
            IN IF s[p] = "-" THEN -n ELSE n

\* as_float: the float is kept as the fraction num/den of its decimal text.
as_float(text) ==
    LET s == StripCommas(text)
        starts == NumberStarts(s)
    IN IF starts = {} THEN [num |-> 0, den |-> 1]
       ELSE LET p == SetMin(starts)
                q == IF s[p] = "-" THEN p + 1 ELSE p
                e == DigitsEnd(s, q)
                hasFrac == e + 1 < Len(s) /\ s[e + 1] = "." /\ IsDigit(s[e + 2])
                f == IF hasFrac THEN DigitsEnd(s, e + 2) ELSE e
                k == IF hasFrac THEN f - (e + 1) ELSE 0
                n == DigitsVal(s, q, e) * Pow10(k)
                       + (IF hasFrac THEN DigitsVal(s, e + 2, f) ELSE 0)
            IN [num |-> IF s[p] = "-" THEN -n ELSE n, den |-> Pow10(k)]

T_nan == <<"n", "a", "n">>
T_inf == <<"i", "n", "f">>

\* The text float() reads as a finite number: an optional sign, digits with at
\* most one point, at least one digit.
IsDecimalText(r) ==
    /\ \A i \in 1..Len(r) : IsDigit(r[i]) \/ r[i] = "."
    /\ \E i \in 1..Len(r) : IsDigit(r[i])
    /\ Cardinality({i \in 1..Len(r) : r[i] = "."}) <= 1

\* The hundredths of a decimal text, digits past the second decimal dropped
\* (they change neither int(n) nor a comparison of frac with 0.4 or 0.5 that
\* decides the result).
DecimalHundredths(r) ==
    LET dots == {i \in 1..Len(r) : r[i] = "."}
        d == IF dots = {} THEN Len(r) + 1 ELSE SetMin(dots)
        tenths == IF d + 1 <= Len(r) THEN DigitVal(r[d + 1]) ELSE 0
        hundredths == IF d + 2 <= Len(r) THEN DigitVal(r[d + 2]) ELSE 0
    IN 100 * DigitsVal(r, 1, d - 1) + 10 * tenths + hundredths

\* The cell text of the K/D column as the value float() is given.
TextVal(s) ==
    LET neg == Len(s) > 0 /\ s[1] = "-"
        r == IF neg THEN Tail(s) ELSE s
    IN IF r = T_nan THEN [t |-> "nan", h |-> 0]
       ELSE IF r = T_inf THEN [t |-> "inf", h |-> IF neg THEN -1 ELSE 1]
       ELSE IF IsDecimalText(r)
            THEN [t |-> "num", h |-> IF neg THEN -DecimalHundredths(r) ELSE DecimalHundredths(r)]
       ELSE IF Len(s) = 0 THEN [t |-> "empty", h |-> 0]
       ELSE [t |-> "text", h |-> 0]

T_player == <<"p", "l", "a", "y", "e", "r">>
T_name == <<"n", "a", "m", "e">>
T_ign == <<"i", "g", "n">>
T_nickname == <<"n", "i", "c", "k", "n", "a", "m", "e">>
T_kd_slash == <<"k", "/", "d">>
T_kd == <<"k", "d">>
T_kill == <<"k", "i", "l", "l">>
T_kills == <<"k", "i", "l", "l", "s">>
T_assist == <<"a", "s", "s", "i", "s", "t">>
T_assists == <<"a", "s", "s", "i", "s", "t", "s">>
T_headshot == <<"h", "e", "a", "d", "s", "h", "o", "t">>
T_longest == <<"l", "o", "n", "g", "e", "s", "t">>

wanted == <<T_player, T_kd_slash, T_kills, T_assists, T_headshot, T_longest>>

\* sum(any(w in h for h in ths) for w in wanted)
Score(ths) ==
    Cardinality({w \in 1..Len(wanted) : \E i \in 1..Len(ths) : Contains(ths[i], wanted[w])})

MinScore == 4

LowerAll(cells) == [i \in 1..Len(cells) |-> LowerText(cells[i])]

\* The header texts the locator reads in a table: thead th, else the first row.
LocatorHeaders(tb) ==
    IF Len(tb.thead) > 0 THEN LowerAll(tb.thead)
    ELSE IF Len(tb.trs) > 0 THEN LowerAll(tb.trs[1])
    ELSE <<>>

\* Every tr of the tables from position t on, in document order.
RECURSIVE RowsFrom(_, _)
RowsFrom(doc, t) ==
    IF t > Len(doc) THEN <<>>
    ELSE (IF Len(doc[t].thead) > 0 THEN <<doc[t].thead>> ELSE <<>>)
            \o doc[t].trs \o RowsFrom(doc, t + 1)

\* find_idx returning the position counted from 1.
find_idxOneBased(headers, keys) ==
    LET hits == {i \in 1..Len(headers) : \E k \in keys : Contains(headers[i], k)}
    IN IF hits = {} THEN -1 ELSE SetMin(hits)

\* find_idx: the 0-based index of the first header holding one of keys, or -1.
find_idx(headers, keys) ==
    LET hits == {i \in 1..Len(headers) : \E k \in keys : Contains(headers[i], k)}
    IN IF hits = {} THEN -1 ELSE SetMin(hits) - 1

\* val(i) in a row of cells tds
CellVal(tds, i) == IF 0 <= i /\ i < Len(tds) THEN tds[i + 1] ELSE <<>>

MinCells == 3

\* for tr in body_rows: the rows appended to players, or the raise of
\* kd_round_to_int.
RECURSIVE ParseRows(_, _)
ParseRows(body_rows, ix) ==
    IF Len(body_rows) = 0 THEN [raised |-> FALSE, players |-> <<>>]
    ELSE LET tds == Head(body_rows)
             rest == ParseRows(Tail(body_rows), ix)
             ign == CellVal(tds, ix.player)
         IN IF Len(tds) < MinCells THEN rest
            ELSE IF Len(ign) = 0 \/ LowerText(ign) \in {T_player, T_name} THEN rest
            ELSE LET kd == kd_round_to_int(TextVal(CellVal(tds, ix.kd))) IN
                 IF kd.raised THEN [raised |-> TRUE, players |-> <<>>]
                 ELSE IF rest.raised THEN rest
                 ELSE [raised |-> FALSE,
                       players |-> <<[ign |-> ign,
                                      kd |-> kd.v,
                                      kills_total |-> as_int(CellVal(tds, ix.kills)),
                                      assists_total |-> as_int(CellVal(tds, ix.ast)),
                                      headshot_kills |-> as_int(CellVal(tds, ix.hs)),
                                      longest_kill |-> as_float(CellVal(tds, ix.long))]>>
                                    \o rest.players]

ColumnIndexes(headers) ==
    [player |-> find_idx(headers, {T_player, T_ign, T_nickname, T_name}),
     kd |-> find_idx(headers, {T_kd_slash, T_kd}),
     kills |-> find_idx(headers, {T_kill}),
     ast |-> find_idx(headers, {T_assist}),
     hs |-> find_idx(headers, {T_headshot}),
     long |-> find_idx(headers, {T_longest})]

\* The first table scoring at least 4, or 0.
TargetTable(doc) ==
    LET good == {t \in 1..Len(doc) : Score(LocatorHeaders(doc[t])) >= MinScore}
    IN IF good = {} THEN 0 ELSE SetMin(good)

parse_twire_players(doc) ==
    LET t == TargetTable(doc) IN
    IF t = 0 THEN [done |-> TRUE, raised |-> FALSE, players |-> <<>>]
    ELSE LET target == doc[t]
             theadHeaders == LowerAll(target.thead)
             headers == IF Len(theadHeaders) > 0 THEN theadHeaders
                        ELSE LowerAll(target.trs[1])
             body_rows == IF Len(theadHeaders) > 0 THEN target.trs
                          ELSE Tail(target.trs) \o RowsFrom(doc, t + 1)
             got == ParseRows(body_rows, ColumnIndexes(headers))
         IN [done |-> TRUE, raised |-> got.raised, players |-> got.players]

(***************************************************************************)
(* The documents drawn.  A layout is a header row; the target table has    *)
(* it in its thead or as its first row, with a table of another kind       *)
(* before or after it.  The body holds a stray row (a repeat of the        *)
(* header, or a row of two cells) and a row whose cell at position pos     *)
(* holds any text of up to MaxLen characters, or nan or inf.               *)
(***************************************************************************)
LayoutHeaders(l) ==
    CASE l = 1 -> <<<<"p", "l", "a", "y", "e", "r">>,
               <<"k", "/", "d">>,
               <<"k", "i", "l", "l", "s">>,
               <<"a", "s", "s", "i", "s", "t", "s">>,
               <<"h", "e", "a", "d", "s", "h", "o", "t", "s">>,
               <<"l", "o", "n", "g", "e", "s", "t">>>>
      [] l = 2 -> <<<<"n", "a", "m", "e">>,
               <<"k", "i", "l", "l", "s">>,
               <<"h", "e", "a", "d", "s", "h", "o", "t", " ", "k", "i", "l", "l", "s">>,
               <<"l", "o", "n", "g", "e", "s", "t", " ", "k", "i", "l", "l">>,
               <<"a", "s", "s", "i", "s", "t", "s">>>>
      [] l = 3 -> <<<<"R", "a", "n", "k">>,
               <<"P", "l", "a", "y", "e", "r">>,
               <<"K", "/", "D">>,
               <<"K", "i", "l", "l", "s">>,
               <<"A", "s", "s", "i", "s", "t", "s">>>>
      [] l = 4 -> <<<<"t", "e", "a", "m">>,
               <<"k", "i", "l", "l", "s">>,
               <<"a", "s", "s", "i", "s", "t", "s">>,
               <<"h", "e", "a", "d", "s", "h", "o", "t">>,
               <<"l", "o", "n", "g", "e", "s", "t">>>>

\* The column that holds the player's name in the rows drawn for a layout.
LayoutNameCol(l) == IF l = 3 THEN 2 ELSE 1

OtherHeaders == <<<<"t", "e", "a", "m">>,
               <<"p", "o", "i", "n", "t", "s">>,
               <<"r", "a", "n", "k">>>>

OtherTable == [thead |-> OtherHeaders, trs |-> <<>>]

Alphabet == {"-", "5", ",", ".", "x"}

DecimalTexts ==
    {<<"-", "5", ".", "5">>, <<"0", ".", "4", "5">>, <<"-", "0", ".", "5">>,
     <<"5", ",", "5", "5", "5">>}

CellTexts ==
    UNION {[1..n -> Alphabet] : n \in 0..MaxLen}
        \cup DecimalTexts \cup {T_nan, T_inf, <<"-">> \o T_inf}

IgnText(g) ==
    CASE g = 1 -> <<"a", "l">>
      [] g = 2 -> <<>>
      [] g = 3 -> <<"P", "l", "a", "y", "e", "r">>

TwForms ==
    {<<1, "thead">>, <<2, "thead">>, <<3, "first_row">>, <<4, "thead">>,
     <<1, "other_first">>, <<3, "other_after">>, <<1, "other_only">>}

TwInputs ==
    [form : TwForms, stray : {"repeat", "short"}, ign : {1}, pos : 1..5, text : CellTexts]
        \cup [form : TwForms, stray : {"repeat", "short"}, ign : {2, 3}, pos : {3},
              text : {<<"5">>}]

TwFreeRow(in) ==
    [j \in 1..Len(LayoutHeaders(in.form[1])) |->
        IF j = in.pos THEN in.text
        ELSE IF j = LayoutNameCol(in.form[1]) THEN IgnText(in.ign)
        ELSE <<"5">>]

TwStrayRow(in) ==
    IF in.stray = "repeat" THEN LayoutHeaders(in.form[1])
    ELSE <<IgnText(1), <<"5">>>>

TwDoc(in) ==
    LET hd == LayoutHeaders(in.form[1])
        rows == <<TwStrayRow(in), TwFreeRow(in)>>
    IN CASE in.form[2] = "thead" -> <<[thead |-> hd, trs |-> rows]>>
         [] in.form[2] = "first_row" -> <<[thead |-> <<>>, trs |-> <<hd>> \o rows]>>
         [] in.form[2] = "other_first" -> <<OtherTable, [thead |-> hd, trs |-> rows]>>
         [] in.form[2] = "other_after" ->
                <<[thead |-> <<>>, trs |-> <<hd, TwStrayRow(in)>>],
                  [thead |-> OtherHeaders, trs |-> <<TwFreeRow(in)>>]>>
         [] in.form[2] = "other_only" -> <<[thead |-> OtherHeaders, trs |-> rows]>>

TwPending == [done |-> FALSE, raised |-> FALSE, players |-> <<>>]

InitParse ==
    /\ tw_in \in TwInputs
    /\ tw_out = TwPending
    /\ CacheIdle /\ RoundIdle /\ ExtractIdle /\ PagerIdle

ParseCall ==
    /\ ~tw_out.done
    /\ tw_out' = parse_twire_players(TwDoc(tw_in))
    /\ UNCHANGED <<tw_in, cacheVars, roundVars, extractVars, pagerVars>>

NextParse == ParseCall

SpecParse == InitParse /\ [][NextParse]_vars

(***************************************************************************)
(* C8 in the terms of the data model: the selected table's header row, the *)
(* column of a field (the first header holding one of its synonyms, 0 when *)
(* none does), and the cell of a row under it.                             *)
(***************************************************************************)
TwHeader == [i \in 1..Len(LayoutHeaders(tw_in.form[1])) |->
                LowerText(LayoutHeaders(tw_in.form[1])[i])]

TwColumn(synonyms) ==
    LET cols == {i \in 1..Len(TwHeader) : \E w \in synonyms : Contains(TwHeader[i], w)}
    IN IF cols = {} THEN 0 ELSE CHOOSE c \in cols : \A d \in cols : c <= d

TwCell(tds, col) == IF col >= 1 /\ col <= Len(tds) THEN tds[col] ELSE <<>>

TwNoNumber(cell) == \A i \in 1..Len(cell) : ~IsDigit(cell[i])

\* The first digit of the cell has a minus sign before it, commas aside.
TwMinusFirst(cell) ==
    \E d \in 1..Len(cell) :
        /\ IsDigit(cell[d])
        /\ \A i \in 1..(d - 1) : ~IsDigit(cell[i])
        /\ \E m \in 1..(d - 1) : cell[m] = "-" /\ \A i \in (m + 1)..(d - 1) : cell[i] = ","

\* The rows of the document, header rows included.
TwSourceRows == {TwStrayRow(tw_in), TwFreeRow(tw_in), OtherHeaders}

TwNameOk(r, tds) ==
    /\ r.ign = TwCell(tds, TwColumn({T_player, T_ign, T_nickname, T_name}))
    /\ Len(r.ign) > 0
    /\ LowerText(r.ign) # T_player /\ LowerText(r.ign) # T_name

TwZeroWhenMissing(r, tds) ==
    /\ TwNoNumber(TwCell(tds, TwColumn({T_kd_slash, T_kd}))) => r.kd = 0
    /\ TwNoNumber(TwCell(tds, TwColumn({T_kill}))) => r.kills_total = 0
    /\ TwNoNumber(TwCell(tds, TwColumn({T_assist}))) => r.assists_total = 0
    /\ TwNoNumber(TwCell(tds, TwColumn({T_headshot}))) => r.headshot_kills = 0
    /\ TwNoNumber(TwCell(tds, TwColumn({T_longest}))) =>
            r.longest_kill.num = 0 /\ r.longest_kill.den = 1

TwTyped(r) ==
    /\ r.kd \in Int /\ r.kills_total \in Int /\ r.assists_total \in Int
    /\ r.headshot_kills \in Int
    /\ r.longest_kill.num \in Int /\ r.longest_kill.den >= 1

\* C8, as claimed: every PlayerRow the parser emits has a non-empty ign that is
\* no header repeat, killsTotal, assistsTotal and headshotKills integers >= 0,
\* longestKill >= 0, and every numeric field 0 when its column is absent or its
\* cell holds no number.
C8_RowInvariant ==
    tw_out.done =>
        \A k \in 1..Len(tw_out.players) :
            LET r == tw_out.players[k] IN
            /\ TwTyped(r)
            /\ r.kills_total >= 0 /\ r.assists_total >= 0 /\ r.headshot_kills >= 0
            /\ r.longest_kill.num >= 0
            /\ \E tds \in TwSourceRows :
                    Len(tds) >= 3 /\ TwNameOk(r, tds) /\ TwZeroWhenMissing(r, tds)

\* C8, amended: as claimed, but a count or the longest kill is negative when
\* (and only when) the first number of its cell has a minus sign before its
\* first digit, commas aside; otherwise it is >= 0.
C8_RowInvariantSigned ==
    tw_out.done =>
        \A k \in 1..Len(tw_out.players) :
            LET r == tw_out.players[k] IN
            /\ TwTyped(r)
            /\ \E tds \in TwSourceRows :
                /\ Len(tds) >= 3 /\ TwNameOk(r, tds) /\ TwZeroWhenMissing(r, tds)
                /\ r.kills_total < 0 => TwMinusFirst(TwCell(tds, TwColumn({T_kill})))
                /\ r.assists_total < 0 => TwMinusFirst(TwCell(tds, TwColumn({T_assist})))
                /\ r.headshot_kills < 0 => TwMinusFirst(TwCell(tds, TwColumn({T_headshot})))
                /\ r.longest_kill.num < 0 => TwMinusFirst(TwCell(tds, TwColumn({T_longest})))

\* A row is emitted whose kills cell reads "-,5": kills_total is -5, and the
\* headshot column the table lacks gives 0.
C8_Witness ==
    /\ tw_out.done /\ ~tw_out.raised
    /\ tw_in.form = <<3, "first_row">>
    /\ tw_in.text = <<"-", ",", "5">> /\ tw_in.pos = 4
    /\ Len(tw_out.players) = 1
    /\ tw_out.players[1].ign = <<"a", "l">>
    /\ tw_out.players[1].kills_total = -5
    /\ tw_out.players[1].headshot_kills = 0
    /\ tw_out.players[1].kd = 5

(***************************************************************************)
(* The TTL disk cache                                                      *)
(*                                                                         *)
(* The clock counts half seconds, so that time.time() has a fraction and   *)
(* int(time.time()) drops it.  A file's content is a sequence of tokens    *)
(* [t, v] of its JSON text:                                                *)
(*   lbrace  {            ts      "_ts": v        ts_text  "_ts": "..."    *)
(*   open    "data": [    row     row number v    close    ]               *)
(*   null    "data": null scalar  "data": "..."   rbrace   }               *)
(*   array   a JSON array instead of an object                             *)
(*   junk    bytes that are no JSON                                        *)
(* A PlayerRow is written by its number.                                   *)
(***************************************************************************)
CACHE_TTL_SEC == 6 * 60 * 60

\* int(time.time()) and the comparison with CACHE_TTL_SEC, on the half-second clock.
IntSeconds(t) == t \div 2
WithinTtl(t, ts) == t - 2 * ts <= 2 * CACHE_TTL_SEC

Tok(t, v) == [t |-> t, v |-> v]

\* json.dumps({"_ts": ts, "data": data})
JsonDumps(ts, data) ==
    <<Tok("lbrace", 0), Tok("ts", ts), Tok("open", 0)>>
        \o [i \in 1..Len(data) |-> Tok("row", data[i])]
        \o <<Tok("close", 0), Tok("rbrace", 0)>>

\* json.loads(text): ok is whether the text is JSON, dict whether it is an object;
\* of an object, its "_ts" member ("none", "number", "text") and its "data"
\* member ("none", "null", "scalar", "list").
JsonLoads(toks) ==
    LET bad == [ok |-> FALSE, dict |-> FALSE, ts_kind |-> "none", ts |-> 0,
                data_kind |-> "none", data |-> <<>>]
        n == Len(toks)
    IN IF n = 1 /\ toks[1].t = "array" THEN [bad EXCEPT !.ok = TRUE]
       ELSE IF n < 2 THEN bad
       ELSE IF toks[1].t # "lbrace" \/ toks[n].t # "rbrace" THEN bad
       ELSE LET hasTs == n >= 3 /\ toks[2].t \in {"ts", "ts_text"}
                d == IF hasTs THEN 3 ELSE 2       \* where the data member starts
                obj == [ok |-> TRUE, dict |-> TRUE,
                        ts_kind |-> IF ~hasTs THEN "none"
                                    ELSE IF toks[2].t = "ts" THEN "number" ELSE "text",
                        ts |-> IF hasTs /\ toks[2].t = "ts" THEN toks[2].v ELSE 0,
                        data_kind |-> "none", data |-> <<>>]
            IN IF d = n THEN obj
               ELSE IF d = n - 1 /\ toks[d].t \in {"null", "scalar"}
                    THEN [obj EXCEPT !.data_kind = toks[d].t]
               ELSE IF /\ d < n - 1 /\ toks[d].t = "open" /\ toks[n - 1].t = "close"
                       /\ \A i \in (d + 1)..(n - 2) : toks[i].t = "row"
                    THEN [obj EXCEPT !.data_kind = "list",
                                     !.data = [i \in 1..(n - 2 - d) |-> toks[d + i].v]]
               ELSE bad

\* cache_path: the key, "/" replaced; the file is player_stats_<key>.json.
ReplaceSlash(s) == [i \in 1..Len(s) |-> IF s[i] = "/" THEN "_" ELSE s[i]]

cache_path(k) ==
    ReplaceSlash(k[1] \o <<"_", "_", "g", "=">> \o k[2] \o <<"_", "_", "r", "=">> \o k[3])

\* What load_cache returns: None (a miss), or obj["data"], a list or not.
Miss == [hit |-> FALSE, kind |-> "none", data |-> <<>>]
Hit(kind, data) == [hit |-> TRUE, kind |-> kind, data |-> data]

\* load_cache comparing with < where the code has <=.
load_cacheStrict(fs, t, k) ==
    LET f == fs[cache_path(k)] IN
    IF ~f.exists THEN Miss
    ELSE LET obj == JsonLoads(f.toks) IN
         IF ~obj.ok \/ ~obj.dict THEN Miss
         ELSE IF obj.ts_kind = "text" THEN Miss
         ELSE IF t - 2 * (IF obj.ts_kind = "none" THEN 0 ELSE obj.ts) < 2 * CACHE_TTL_SEC
              THEN (IF obj.data_kind \in {"list", "scalar"}
                    THEN Hit(obj.data_kind, obj.data) ELSE Miss)
              ELSE Miss

load_cache(fs, t, k) ==
    LET f == fs[cache_path(k)] IN
    IF ~f.exists THEN Miss
    ELSE LET obj == JsonLoads(f.toks) IN
         IF ~obj.ok \/ ~obj.dict THEN Miss                 \* json.loads, obj.get raise
         ELSE IF obj.ts_kind = "text" THEN Miss            \* time.time() - "..." raises
         ELSE IF WithinTtl(t, IF obj.ts_kind = "none" THEN 0 ELSE obj.ts)
              THEN (IF obj.data_kind \in {"list", "scalar"}
                    THEN Hit(obj.data_kind, obj.data) ELSE Miss)
              ELSE Miss

\* save_cache: the files after p.write_text(json.dumps(...)) has returned.
save_cache(fs, t, k, data) ==
    [fs EXCEPT ![cache_path(k)] = [exists |-> TRUE, toks |-> JsonDumps(IntSeconds(t), data)]]

Response(op, ok, cached, rendered, kind, players) ==
    [op |-> op, ok |-> ok, cached |-> cached, rendered |-> rendered,
     kind |-> kind, players |-> players]

NoResponse == Response("none", FALSE, FALSE, FALSE, "none", <<>>)

\* The handler testing the truth of cached where the code tests cached is not None.
api_twire_player_statsTruthy(fs, t, k, scrape) ==
    LET cached == load_cache(fs, t, k) IN
    IF cached.hit /\ (cached.kind = "scalar" \/ Len(cached.data) > 0)
    THEN [files |-> fs,
          resp |-> Response("request", TRUE, TRUE, FALSE, cached.kind, cached.data)]
    ELSE IF scrape.ok
         THEN [files |-> save_cache(fs, t, k, scrape.players),
               resp |-> Response("request", TRUE, FALSE, TRUE, "list", scrape.players)]
         ELSE [files |-> fs,
               resp |-> Response("request", FALSE, FALSE, TRUE, "none", <<>>)]

\* The handler writing an entry although fetch_twire_players raised.
api_twire_player_statsSaveOnFailure(fs, t, k, scrape) ==
    LET cached == load_cache(fs, t, k) IN
    IF cached.hit
    THEN [files |-> fs,
          resp |-> Response("request", TRUE, TRUE, FALSE, cached.kind, cached.data)]
    ELSE IF scrape.ok
         THEN [files |-> save_cache(fs, t, k, scrape.players),
               resp |-> Response("request", TRUE, FALSE, TRUE, "list", scrape.players)]
         ELSE [files |-> save_cache(fs, t, k, <<>>),
               resp |-> Response("request", FALSE, FALSE, TRUE, "none", <<>>)]

\* api_twire_player_stats for a tournament_id that is not empty: the files and
\* the response after it, scrape being what fetch_twire_players does if called.
api_twire_player_stats(fs, t, k, scrape) ==
    LET cached == load_cache(fs, t, k) IN
    IF cached.hit
    THEN [files |-> fs,
          resp |-> Response("request", TRUE, TRUE, FALSE, cached.kind, cached.data)]
    ELSE IF scrape.ok
         THEN [files |-> save_cache(fs, t, k, scrape.players),
               resp |-> Response("request", TRUE, FALSE, TRUE, "list", scrape.players)]
         ELSE [files |-> fs,
               resp |-> Response("request", FALSE, FALSE, TRUE, "none", <<>>)]

(***************************************************************************)
(* SpecCache: the cache and the handler, one call at a time                *)
(***************************************************************************)
MaxSmall == 1      \* half seconds the clock advances one by one
MaxBig == 1        \* times the clock advances by CACHE_TTL_SEC

Tids == {<<"7", "/", "1">>, <<"7", "_", "1">>}
Groups == {<<>>, <<"A">>}      \* <<>>: the parameter absent or empty (group or '')
Rounds == {<<>>}
Triples == Tids \X Groups \X Rounds
CacheFiles == {cache_path(k) : k \in Triples}

RowLists == {<<>>, <<1, 2>>, <<2, 1>>}

ScrapeFailed == [ok |-> FALSE, players |-> <<>>]
Scrapes == {[ok |-> TRUE, players |-> d] : d \in RowLists} \cup {ScrapeFailed}

NoFile == [exists |-> FALSE, toks |-> <<>>]
File(toks) == [exists |-> TRUE, toks |-> toks]

\* Contents a file of .twire_cache may have when the program starts.
FoundContents ==
    { <<>>,
      <<Tok("junk", 0)>>,
      <<Tok("array", 0)>>,
      <<Tok("lbrace", 0), Tok("rbrace", 0)>>,
      <<Tok("lbrace", 0), Tok("open", 0), Tok("row", 1), Tok("close", 0), Tok("rbrace", 0)>>,
      <<Tok("lbrace", 0), Tok("ts_text", 0), Tok("open", 0), Tok("row", 1),
        Tok("close", 0), Tok("rbrace", 0)>>,
      <<Tok("lbrace", 0), Tok("ts", 0), Tok("rbrace", 0)>>,
      <<Tok("lbrace", 0), Tok("ts", 0), Tok("null", 0), Tok("rbrace", 0)>>,
      <<Tok("lbrace", 0), Tok("ts", 0), Tok("scalar", 0), Tok("rbrace", 0)>>,
      <<Tok("lbrace", 0), Tok("ts", 0), Tok("open", 0), Tok("row", 1)>>,
      <<Tok("lbrace", 0), Tok("ts", 0), Tok("open", 0), Tok("row", 1),
        Tok("close", 0), Tok("rbrace", 0), Tok("rbrace", 0)>>,
      JsonDumps(0, <<1>>),
      JsonDumps(4 * CACHE_TTL_SEC, <<1>>) }

NoPut == [done |-> FALSE, by |-> "none", at |-> 0, data |-> <<>>]

InitCache ==
    /\ now = 0
    /\ \E p \in CacheFiles, f \in {NoFile} \cup {File(c) : c \in FoundContents} :
           files = [q \in CacheFiles |-> IF q = p THEN f ELSE NoFile]
    /\ resp = NoResponse
    /\ last_put = [q \in CacheFiles |-> NoPut]
    /\ procs = <<>>
    /\ RoundIdle /\ ExtractIdle /\ PagerIdle /\ ParseIdle

\* A call of load_cache.
LoadCache(k) ==
    /\ LET r == load_cache(files, now, k)
       IN resp' = Response("load", r.hit, FALSE, FALSE, r.kind, r.data)
    /\ UNCHANGED <<now, files, last_put, procs, roundVars, extractVars, pagerVars, parseVars>>

\* A call of save_cache.
SaveCache(k, data) ==
    /\ files' = save_cache(files, now, k, data)
    /\ last_put' = [last_put EXCEPT ![cache_path(k)] =
                        [done |-> TRUE, by |-> "save", at |-> now, data |-> data]]
    /\ resp' = Response("save", TRUE, FALSE, FALSE, "none", <<>>)
    /\ UNCHANGED <<now, procs, roundVars, extractVars, pagerVars, parseVars>>

\* A request GET /api/twire/player-stats, from load_cache to the response.
Request(k, scrape) ==
    /\ LET r == api_twire_player_stats(files, now, k, scrape)
       IN /\ files' = r.files
          /\ resp' = r.resp
          /\ last_put' = IF r.resp.ok /\ r.resp.rendered
                         THEN [last_put EXCEPT ![cache_path(k)] =
                                   [done |-> TRUE, by |-> "request", at |-> now,
                                    data |-> scrape.players]]
                         ELSE last_put
    /\ UNCHANGED <<now, procs, roundVars, extractVars, pagerVars, parseVars>>

\* Half a second passes.
TickHalf ==
    /\ now % (2 * CACHE_TTL_SEC) < MaxSmall
    /\ now' = now + 1
    /\ UNCHANGED <<files, resp, last_put, procs, roundVars, extractVars, pagerVars, parseVars>>

\* CACHE_TTL_SEC seconds pass.
TickTtl ==
    /\ now \div (2 * CACHE_TTL_SEC) < MaxBig
    /\ now' = now + 2 * CACHE_TTL_SEC
    /\ UNCHANGED <<files, resp, last_put, procs, roundVars, extractVars, pagerVars, parseVars>>

NextCache ==
    \/ \E k \in Triples : LoadCache(k)
    \/ \E k \in Triples, d \in RowLists : SaveCache(k, d)
    \/ \E k \in Triples, s \in Scrapes : Request(k, s)
    \/ TickHalf
    \/ TickTtl

SpecCache == InitCache /\ [][NextCache]_vars

\* An entry as save_cache writes it: a timestamp and a list of rows.
WellFormed(f) ==
    /\ f.exists
    /\ Len(f.toks) >= 5
    /\ f.toks[2].t = "ts"
    /\ f.toks = JsonDumps(f.toks[2].v, [i \in 1..(Len(f.toks) - 5) |-> f.toks[i + 3].v])
    /\ \A i \in 4..(Len(f.toks) - 2) : f.toks[i].t = "row"

StoredTimestamp(f) == f.toks[2].v
StoredRows(f) == [i \in 1..(Len(f.toks) - 5) |-> f.toks[i + 3].v]

\* C1: load_cache returns a hit if and only if the key's file exists, is a
\* well-formed entry and now - storedTimestamp <= TTL; otherwise it reports a miss.
C1_GetHitIff ==
    [][\A k \in Triples :
          (resp'.op = "load" /\ LoadCache(k)) =>
              (resp'.ok <=> /\ WellFormed(files[cache_path(k)])
                            /\ WithinTtl(now, StoredTimestamp(files[cache_path(k)])))]_vars

\* C2: save_cache(key, rows) followed by load_cache(key), with no save_cache on
\* that key's file in between and the clock advanced by at most TTL, returns rows.
C2_PutGetRoundTrip ==
    [][\A k \in Triples :
          LET p == last_put[cache_path(k)] IN
          (p.done /\ now - p.at <= 2 * CACHE_TTL_SEC /\ resp'.op = "load" /\ LoadCache(k))
              => (resp'.ok /\ resp'.kind = "list" /\ resp'.players = p.data)]_vars

\* C2 (amended): the same, the clock having advanced by at most TTL since the
\* whole second in which save_cache ran.
C2_PutGetRoundTripWholeSeconds ==
    [][\A k \in Triples :
          LET p == last_put[cache_path(k)] IN
          (p.done /\ now - 2 * (p.at \div 2) <= 2 * CACHE_TTL_SEC
             /\ resp'.op = "load" /\ LoadCache(k))
              => (resp'.ok /\ resp'.kind = "list" /\ resp'.players = p.data)]_vars

\* load_cache has just returned the rows saved exactly TTL before.
C2_Witness ==
    /\ resp.op = "load" /\ resp.ok /\ resp.players = <<2, 1>>
    /\ \E q \in CacheFiles :
          /\ last_put[q].done /\ last_put[q].data = <<2, 1>>
          /\ last_put[q].at = 0 /\ now = 2 * CACHE_TTL_SEC
          /\ \A r \in CacheFiles \ {q} : ~files[r].exists

\* C3: a save_cache for one triple, called directly or by a request, never
\* changes what load_cache returns for a different triple.
C3_KeysDoNotInterfere ==
    [][\A k1 \in Triples :
          (\/ resp'.op = "save" /\ \E d \in RowLists : SaveCache(k1, d)
           \/ resp'.op = "request" /\ \E s \in Scrapes : Request(k1, s))
              => \A k2 \in Triples \ {k1} :
                     load_cache(files', now', k2) = load_cache(files, now, k2)]_vars

C10_EmptyResultCached ==
    [][\A k \in Triples :
          LET f == files[cache_path(k)] IN
          /\ (/\ resp'.op = "request" /\ ~load_cache(files, now, k).hit
              /\ Request(k, [ok |-> TRUE, players |-> <<>>]))
                => /\ files'[cache_path(k)] = File(JsonDumps(IntSeconds(now), <<>>))
                   /\ resp'.ok /\ ~resp'.cached /\ resp'.players = <<>>
          /\ \A s \in Scrapes :
                (/\ resp'.op = "request"
                 /\ WellFormed(f) /\ StoredRows(f) = <<>>
                 /\ WithinTtl(now, StoredTimestamp(f))
                 /\ Request(k, s))
                => /\ resp'.ok /\ resp'.cached /\ ~resp'.rendered
                   /\ resp'.kind = "list" /\ resp'.players = <<>>
                   /\ files' = files]_vars

\* A request has just been answered from a stored empty list, TTL after the
\* request that stored it.
C10_Witness ==
    /\ resp.op = "request" /\ resp.ok /\ resp.cached /\ ~resp.rendered
    /\ resp.kind = "list" /\ resp.players = <<>>
    /\ now = 2 * CACHE_TTL_SEC
    /\ \E q \in CacheFiles :
          /\ last_put[q] = [done |-> TRUE, by |-> "request", at |-> 0, data |-> <<>>]
          /\ files[q] = File(JsonDumps(0, <<>>))
          /\ \A r \in CacheFiles \ {q} : ~files[r].exists

(***************************************************************************)
(* SpecConc: requests for one key served by concurrent threads             *)
(*                                                                         *)
(* app.run serves each request on a thread of its own.  A request is       *)
(* followed call by call: load_cache reads the file, fetch_twire_players   *)
(* returns or raises, and save_cache's Path.write_text opens the file,     *)
(* which empties it, and writes the text at its own offset in one or more  *)
(* pieces before it closes.  What two threads writing one file without a   *)
(* lock leave in it is every outcome of these steps' interleavings.        *)
(***************************************************************************)
NProcs == 2
Procs == 1..NProcs

ConcKey == <<<<"7">>, <<>>, <<>>>>
ConcFile == cache_path(ConcKey)

\* The rows of the entry found when the requests start, and what a scrape returns.
FoundRows == <<3>>
ConcScrapes == {[ok |-> TRUE, players |-> d] : d \in {<<1>>, <<1, 2>>, <<2, 1>>}}
                   \cup {ScrapeFailed}

Proc(pc, got, data, off, out) ==
    [pc |-> pc, got |-> got, data |-> data, off |-> off, out |-> out]

InitConc ==
    /\ now = 0
    /\ \E f \in {NoFile, File(JsonDumps(0, FoundRows)),
                 File(JsonDumps(0 - CACHE_TTL_SEC - 1, FoundRows))} :
           files = [q \in {ConcFile} |-> f]
    /\ resp = NoResponse
    /\ last_put = <<>>
    /\ procs = [i \in Procs |-> Proc("load", Miss, <<>>, 0, "none")]
    /\ RoundIdle /\ ExtractIdle /\ PagerIdle /\ ParseIdle

\* The text save_cache writes for the rows thread i scraped.
Text(i) == JsonDumps(IntSeconds(now), procs[i].data)

\* A file after a write of piece at offset off.
WriteAt(toks, off, piece) ==
    [j \in 1..Max(Len(toks), off + Len(piece)) |->
        IF j > off /\ j <= off + Len(piece) THEN piece[j - off]
        ELSE IF j <= Len(toks) THEN toks[j]
        ELSE Tok("junk", 0)]

\* cached = load_cache(...); a hit is answered at once.
ProcLoad(i) ==
    /\ procs[i].pc = "load"
    /\ LET r == load_cache(files, now, ConcKey)
       IN procs' = [procs EXCEPT ![i] =
                        IF r.hit THEN Proc("done", r, <<>>, 0, "cached")
                        ELSE Proc("fetch", r, <<>>, 0, "none")]
    /\ UNCHANGED <<now, files, resp, last_put, roundVars, extractVars, pagerVars, parseVars>>

\* players = fetch_twire_players(url); a failure is answered with 500.
ProcFetch(i, scrape) ==
    /\ procs[i].pc = "fetch"
    /\ procs' = [procs EXCEPT ![i] =
                     IF scrape.ok THEN Proc("open", procs[i].got, scrape.players, 0, "none")
                     ELSE Proc("done", procs[i].got, <<>>, 0, "failed")]
    /\ UNCHANGED <<now, files, resp, last_put, roundVars, extractVars, pagerVars, parseVars>>

\* write_text opens the file for writing: it exists and is empty.
ProcOpen(i) ==
    /\ procs[i].pc = "open"
    /\ files' = [files EXCEPT ![ConcFile] = File(<<>>)]
    /\ procs' = [procs EXCEPT ![i].pc = "write"]
    /\ UNCHANGED <<now, resp, last_put, roundVars, extractVars, pagerVars, parseVars>>

\* write_text writes the next n tokens; after the last it closes and the
\* request is answered.
ProcWrite(i, n) ==
    /\ procs[i].pc = "write"
    /\ n \in 1..(Len(Text(i)) - procs[i].off)
    /\ files' = [files EXCEPT ![ConcFile] =
                     File(WriteAt(files[ConcFile].toks, procs[i].off,
                                  SubSeq(Text(i), procs[i].off + 1, procs[i].off + n)))]
    /\ procs' = [procs EXCEPT ![i] =
                     IF procs[i].off + n = Len(Text(i))
                     THEN Proc("done", procs[i].got, procs[i].data, procs[i].off + n, "scraped")
                     ELSE Proc("write", procs[i].got, procs[i].data, procs[i].off + n, "none")]
    /\ UNCHANGED <<now, resp, last_put, roundVars, extractVars, pagerVars, parseVars>>

NextConc ==
    \/ \E i \in Procs : ProcLoad(i)
    \/ \E i \in Procs, s \in ConcScrapes : ProcFetch(i, s)
    \/ \E i \in Procs : ProcOpen(i)
    \/ \E i \in Procs : \E n \in 1..Len(Text(i)) : ProcWrite(i, n)

SpecConc == InitConc /\ [][NextConc]_vars

\* The threads that have called save_cache.
Writers == {i \in Procs : procs[i].pc = "write" \/ procs[i].out = "scraped"}

\* C4: whatever the interleaving, a load_cache returns a miss or the whole row
\* list of one save_cache (or of the entry found at the start), and when every
\* request is done and some have saved, the file is the entry one of them wrote.
C4_SameKeyRequestsSafe ==
    /\ \A i \in Procs :
          procs[i].got.hit =>
              \/ procs[i].got.kind = "list" /\ procs[i].got.data = FoundRows
              \/ \E j \in Writers \ {i} :
                    procs[i].got.kind = "list" /\ procs[i].got.data = procs[j].data
    /\ ((\A i \in Procs : procs[i].pc = "done") /\ Writers # {})
          => \E j \in Writers : files[ConcFile] = File(Text(j))

====
